---------------------------- MODULE Spec2Model ----------------------------
(***************************************************************************)
(* A model of the two SageMaker notebooks of the repository:               *)
(*                                                                         *)
(*   - the training notebook (src/unnamed/part_002): download the census   *)
(*     data, split it, fit the pre-processing, upload the transformed      *)
(*     splits, run the managed training job, download the model;           *)
(*   - the monitoring notebook (src/unnamed/part_001): upload model, train *)
(*     and test files, build the drift detector image, deploy the          *)
(*     endpoint with data capture, register the monitoring schedule and    *)
(*     start the background thread that replays data/infer.csv.            *)
(*                                                                         *)
(* Each notebook is a kernel that executes its cells top to bottom, one    *)
(* statement at a time; an exception ends the run of that notebook.  The   *)
(* two kernels share the local disk and the S3 bucket.  The traffic        *)
(* worker is a thread of the monitoring kernel.                            *)
(***************************************************************************)
EXTENDS Integers, Sequences, FiniteSets, TLC

VARIABLES
    \* ---- environment
    adult,            \* the rows served by the UCI repository (adult.data)
    perm90,           \* the shuffle drawn by the first train_test_split
    perm80,           \* the shuffle drawn by the second train_test_split
    disk,             \* local files: name -> File(data) or Absent
    s3,               \* objects of the bucket: key -> File(data) or Absent
    \* ---- training notebook kernel (part_002)
    tpc,              \* next statement of the training notebook
    df,               \* DataFrame read from data/adult.csv
    df_train_val,     \* 90% split
    df_test,          \* 10% split
    X,                \* transformed matrix, label in the first column
    X_train,          \* 80% of X
    X_val,            \* 20% of X
    idx,              \* index arrays the two splits selected
    job,              \* the managed training job, NoResource before xgb.fit
    \* ---- monitoring notebook kernel (part_001)
    mpc,              \* next statement of the monitoring notebook
    kernel,           \* "alive" or "dead": the monitoring notebook's process
    merr,             \* the statement whose exception ended the notebook run, "" if none
    out,              \* lines printed by the monitoring kernel (main and thread)
    calls,            \* the SDK calls the main thread has made, in order
    image_name,       \* drift detector image pushed to ECR
    endpoint,         \* the hosted endpoint, NoResource before deploy
    schedule,         \* the monitoring schedule, NoResource before creation
    \* ---- traffic worker thread (invoke_endpoint)
    wpc,              \* position of the worker
    werr,             \* where the worker's exception was raised, and what was sent by then
    count,            \* rows counted by the first pass over the file
    ind,              \* enumerate() index of the row being sent
    f,                \* the open file: its lines not yet read, NoLines when closed
    now,              \* worker clock, in units of 1/count second
    start_time,       \* time() taken before the call
    prev_start,       \* start_time of the previous call, -1 if none
    elapsed,          \* time the last call took
    slept,            \* argument of the last sleep()
    overrun,          \* some call so far took longer than sleep_time
    requests,         \* payloads received by the endpoint, in order
    returned,         \* calls to the endpoint that have ended
    captured,         \* payloads the endpoint wrote to the capture path
    \* ---- model server (script/inference.py)
    spc,              \* "idle", "received" (a request is in) or "responded"
    preprocess,       \* the preprocessor loaded from preprocess.pkl
    request_body,     \* body of the request
    content_type,     \* content type of the request
    result            \* what input_fn returned or raised

envVars == <<adult, perm90, perm80, disk, s3>>
trainVars == <<tpc, df, df_train_val, df_test, X, X_train, X_val, idx, job>>
monVars == <<mpc, merr, out, calls, image_name, endpoint, schedule>>
workerVars == <<wpc, werr, count, ind, f, now, start_time, prev_start, elapsed,
                slept, overrun, requests, returned, captured>>
serverVars == <<spc, preprocess, request_body, content_type, result>>
vars == <<envVars, trainVars, monVars, kernel, workerVars, serverVars>>

----------------------------------------------------------------------------
(* Bounds of the model *)

\* Largest number of rows in the body of a request to the model server
MaxBodyRows == 2

\* Largest number of rows of adult.csv
MaxRows == 4

\* Largest number of data rows of data/infer.csv
MaxInferRows == 41
MaxProgressRows == 120

----------------------------------------------------------------------------
(* Generic helpers *)

NoResource == [exists |-> FALSE]
NoLines == <<>>

Range(s) == {s[i] : i \in 1..Len(s)}

\* the orders numpy's permutation(n) can return
ShufflesOf(n) ==
    {p \in [1..n -> 1..n] : \A i, j \in 1..n : p[i] = p[j] => i = j}

IsPrefix(s, t) == Len(s) <= Len(t) /\ SubSeq(t, 1, Len(s)) = s

File(data) == [exists |-> TRUE, data |-> data]
Absent == [exists |-> FALSE, data |-> <<>>]

\* ceil(num/den * n) for a fraction num/den and a natural n
CeilFrac(num, den, n) == (num * n + den - 1) \div den

----------------------------------------------------------------------------
(* The census data: part_002, cell "Read csv with column names" *)

column_names ==
    <<"age", "workclass", "fnlwgt", "education", "education-num",
      "marital-status", "occupation", "relationship", "race", "sex",
      "capital-gain", "capital-loss", "hours-per-week", "native-country",
      "income">>

NumColumns == Len(column_names)

\* Columns pandas reads as numbers; the others are read as dtype object.
NumericNames ==
    {"age", "fnlwgt", "education-num", "capital-gain", "capital-loss",
     "hours-per-week"}

\* Row i of adult.data: 15 comma separated fields, the text fields with the
\* leading blank the UCI file has.
RawRow(i) ==
    [j \in 1..NumColumns |->
        IF column_names[j] \in NumericNames THEN i + j
        ELSE IF column_names[j] = "income"
             THEN (IF i % 3 = 0 THEN " >50K" ELSE " <=50K")
             ELSE (IF (i + j) % 2 = 0 THEN " A" ELSE " B")]

AdultData(n) == [i \in 1..n |-> RawRow(i)]

\* str.replace(" ", "") on the values of the model
StripBlanks(v) ==
    CASE v = " A" -> "A"
      [] v = " B" -> "B"
      [] v = " >50K" -> ">50K"
      [] v = " <=50K" -> "<=50K"
      [] OTHER -> v

\* pd.read_csv(names = column_names) followed by the clean-up loop: one
\* DataFrame row per line, labelled by its position, the text columns stripped.
read_csv(lines) ==
    [i \in 1..Len(lines) |->
        [index |-> i,
         values |-> [j \in 1..NumColumns |->
                        IF column_names[j] \in NumericNames
                        THEN lines[i][j]
                        ELSE StripBlanks(lines[i][j])]]]

\* DataFrame.to_csv with the index written (the default, index=True)
to_csv_with_index(columns, frame) ==
    <<<<"">> \o columns>> \o [i \in 1..Len(frame) |-> <<frame[i].index>> \o frame[i].values]

\* DataFrame.to_csv(index=False) of a frame with the given columns: the header
\* line, then one line per row, the index label not written.
to_csv(columns, frame) ==
    <<columns>> \o [i \in 1..Len(frame) |-> frame[i].values]

----------------------------------------------------------------------------
(* sklearn.model_selection.train_test_split(data, test_size = num/den) *)

n_test_of(num, den, n) == CeilFrac(num, den, n)
n_train_of(num, den, n) == n - n_test_of(num, den, n)

\* ShuffleSplit: the first n_test entries of the permutation are the test
\* rows, the next n_train the train rows.
ind_test(num, den, perm) ==
    [k \in 1..n_test_of(num, den, Len(perm)) |-> perm[k]]

\* A split that takes the train rows from the front of the permutation, where
\* the test rows are
ind_train_from_front(num, den, perm) ==
    [k \in 1..n_train_of(num, den, Len(perm)) |-> perm[k]]

ind_train(num, den, perm) ==
    [k \in 1..n_train_of(num, den, Len(perm)) |->
        perm[n_test_of(num, den, Len(perm)) + k]]

\* train_test_split raises ValueError when the train set would be empty.
SplitRaises(num, den, n) == n_train_of(num, den, n) <= 0

Take(data, indices) == [k \in 1..Len(indices) |-> data[indices[k]]]

----------------------------------------------------------------------------
(* The pre-processing pipeline: part_002, cell with ColumnTransformer *)

numeric_ind == SelectSeq([j \in 1..NumColumns - 1 |-> j],
                         LAMBDA j : column_names[j] \in NumericNames)
cat_ind == SelectSeq([j \in 1..NumColumns - 1 |-> j],
                     LAMBDA j : column_names[j] \notin NumericNames)

\* The categories of the model in sorted order
SortedCategories == <<"A", "B">>

\* OneHotEncoder.fit: the categories seen in column j, sorted
categories_(frame, j) ==
    SelectSeq(SortedCategories,
              LAMBDA c : \E i \in 1..Len(frame) : frame[i].values[j] = c)

OneHot(cats, v) == [k \in 1..Len(cats) |-> IF cats[k] = v THEN 1 ELSE 0]

RECURSIVE Concat(_)
Concat(seqs) == IF seqs = <<>> THEN <<>> ELSE Head(seqs) \o Concat(Tail(seqs))

\* preprocessor.transform of one row, the preprocessor fitted on `frame`:
\* the numeric columns, then the one-hot columns of each text column.
transform(frame, row) ==
    [k \in 1..Len(numeric_ind) |-> row.values[numeric_ind[k]]]
    \o Concat([k \in 1..Len(cat_ind) |->
                 OneHot(categories_(frame, cat_ind[k]),
                        row.values[cat_ind[k]])])

\* LabelEncoder().fit_transform(income): the position of the value among the
\* sorted distinct values.
LabelEncoder(frame, v) ==
    IF v = ">50K" /\ \E i \in 1..Len(frame) : frame[i].values[NumColumns] = "<=50K"
    THEN 1 ELSE 0

\* The label put behind the features, as the last column
fit_transform_append(frame) ==
    [i \in 1..Len(frame) |->
        transform(frame, frame[i])
        \o <<LabelEncoder(frame, frame[i].values[NumColumns])>>]

\* X = np.insert(preprocessor.fit_transform(no_target), 0, y, axis=1)
fit_transform_insert(frame) ==
    [i \in 1..Len(frame) |->
        <<LabelEncoder(frame, frame[i].values[NumColumns])>>
        \o transform(frame, frame[i])]

----------------------------------------------------------------------------
(* Local files and S3 keys *)

DiskFiles ==
    {"data/adult.csv", "data/train.csv", "data/test.csv", "script/preprocess.pkl",
     "data/train_transform.csv", "data/val_transform.csv", "model/model.tar.gz",
     "data/infer.csv"}

\* A key is the sequence of its pieces, so that one key is a prefix of another
\* exactly when its text is.
prefix == "sagemaker/DEMO-ModelMonitor"

\* os.path.join(prefix, 'train/train.csv'), os.path.join(prefix, 'validation/validation.csv')
TrainTransformKey == <<prefix, "/", "train", "/", "train", ".csv">>
ValTransformKey == <<prefix, "/", "validation", "/", "validation", ".csv">>
\* the training job's output_path
OutputModelKey == <<prefix, "/", "output", "/", "model.tar.gz">>
\* os.path.join(prefix, 'model.tar.gz'), (prefix, 'train.csv'), (prefix, 'test.csv')
s3_model_key == <<prefix, "/", "model.tar.gz">>
s3_train_key == <<prefix, "/", "train", ".csv">>
s3_test_key == <<prefix, "/", "test", ".csv">>

S3Keys ==
    {TrainTransformKey, ValTransformKey, OutputModelKey, s3_model_key,
     s3_train_key, s3_test_key}

\* TrainingInput(s3_data = 's3://bucket/prefix/train'), (.../validation/)
s3_input_train == <<prefix, "/", "train">>
s3_input_validation == <<prefix, "/", "validation", "/">>

\* The objects an S3 prefix data source matches
Channel(store, key_prefix) ==
    {k \in S3Keys : store[k].exists /\ IsPrefix(key_prefix, k)}

----------------------------------------------------------------------------
(* Training notebook, part_002 *)

TrainRaise == /\ tpc' = "raised"

\* %%bash wget adult.data; mv adult.data ./data/adult.csv
Wget ==
    /\ tpc = "wget"
    /\ disk' = [disk EXCEPT !["data/adult.csv"] = File(adult)]
    /\ tpc' = "read_csv"
    /\ UNCHANGED <<adult, perm90, perm80, s3, df, df_train_val, df_test, X,
                   X_train, X_val, idx, job, monVars, kernel, workerVars>>
    /\ UNCHANGED serverVars

\* df = pd.read_csv('data/adult.csv', names = column_names) and the clean-up
ReadCsv ==
    /\ tpc = "read_csv"
    /\ df' = read_csv(disk["data/adult.csv"].data)
    /\ tpc' = "split90"
    /\ UNCHANGED <<envVars, df_train_val, df_test, X, X_train, X_val, idx, job,
                   monVars, kernel, workerVars>>
    /\ UNCHANGED serverVars

\* df_train_val, df_test, = train_test_split(df, test_size=0.1, random_state=42)
Split90 ==
    /\ tpc = "split90"
    /\ IF SplitRaises(1, 10, Len(df))
       THEN /\ TrainRaise
            /\ UNCHANGED <<df_train_val, df_test, idx>>
       ELSE /\ idx' = [idx EXCEPT !.train_val = ind_train(1, 10, perm90),
                                  !.test = ind_test(1, 10, perm90)]
            /\ df_train_val' = Take(df, idx'.train_val)
            /\ df_test' = Take(df, idx'.test)
            /\ tpc' = "to_csv_train"
    /\ UNCHANGED <<envVars, df, X, X_train, X_val, job, monVars, kernel,
                   workerVars>>
    /\ UNCHANGED serverVars

\* df_train_val.to_csv('data/train.csv', index=False)
ToCsvTrain ==
    /\ tpc = "to_csv_train"
    /\ disk' = [disk EXCEPT !["data/train.csv"] =
                    File(to_csv(column_names, df_train_val))]
    /\ tpc' = "to_csv_test"
    /\ UNCHANGED <<adult, perm90, perm80, s3, df, df_train_val, df_test, X,
                   X_train, X_val, idx, job, monVars, kernel, workerVars>>
    /\ UNCHANGED serverVars

\* df_test.to_csv('data/test.csv', index=False)
ToCsvTest ==
    /\ tpc = "to_csv_test"
    /\ disk' = [disk EXCEPT !["data/test.csv"] =
                    File(to_csv(column_names, df_test))]
    /\ tpc' = "fit_transform"
    /\ UNCHANGED <<adult, perm90, perm80, s3, df, df_train_val, df_test, X,
                   X_train, X_val, idx, job, monVars, kernel, workerVars>>
    /\ UNCHANGED serverVars

\* X = preprocessor.fit_transform(...); y = ...; X = np.insert(X, 0, y, axis=1)
FitTransform ==
    /\ tpc = "fit_transform"
    /\ X' = fit_transform_insert(df_train_val)
    /\ tpc' = "pickle"
    /\ UNCHANGED <<envVars, df, df_train_val, df_test, X_train, X_val, idx, job,
                   monVars, kernel, workerVars>>
    /\ UNCHANGED serverVars

\* pickle.dump(preprocessor, f) to script/preprocess.pkl
PickleDump ==
    /\ tpc = "pickle"
    /\ disk' = [disk EXCEPT !["script/preprocess.pkl"] =
                    File([j \in 1..Len(cat_ind) |->
                             categories_(df_train_val, cat_ind[j])])]
    /\ tpc' = "split80"
    /\ UNCHANGED <<adult, perm90, perm80, s3, df, df_train_val, df_test, X,
                   X_train, X_val, idx, job, monVars, kernel, workerVars>>
    /\ UNCHANGED serverVars

\* X_train, X_val, = train_test_split(X, test_size=0.2, random_state=42)
Split80 ==
    /\ tpc = "split80"
    /\ IF SplitRaises(1, 5, Len(X))
       THEN /\ TrainRaise
            /\ UNCHANGED <<X_train, X_val, idx>>
       ELSE /\ idx' = [idx EXCEPT !.train = ind_train(1, 5, perm80),
                                  !.val = ind_test(1, 5, perm80)]
            /\ X_train' = Take(X, idx'.train)
            /\ X_val' = Take(X, idx'.val)
            /\ tpc' = "savetxt"
    /\ UNCHANGED <<envVars, df, df_train_val, df_test, X, job, monVars, kernel,
                   workerVars>>
    /\ UNCHANGED serverVars

\* '%f' % v for a whole number v (the numeric columns of adult.data, the
\* one-hot columns and the label are whole numbers): its digits, a point and
\* six zeros
fmt_f(v) == [whole |-> v, point |-> ".", decimals |-> <<0, 0, 0, 0, 0, 0>>]

\* The number a field written by fmt_f reads as
float_of(field) == field.whole

\* np.savetxt(fname, matrix, delimiter=",", fmt='%f'): one line per row, no
\* header, every value formatted
savetxt(matrix) ==
    [i \in 1..Len(matrix) |-> [j \in 1..Len(matrix[i]) |-> fmt_f(matrix[i][j])]]

\* np.savetxt("data/train_transform.csv", X_train, ...); np.savetxt(... X_val ...)
Savetxt ==
    /\ tpc = "savetxt"
    /\ disk' = [disk EXCEPT !["data/train_transform.csv"] = File(savetxt(X_train)),
                            !["data/val_transform.csv"] = File(savetxt(X_val))]
    /\ tpc' = "upload_train"
    /\ UNCHANGED <<adult, perm90, perm80, s3, df, df_train_val, df_test, X,
                   X_train, X_val, idx, job, monVars, kernel, workerVars>>
    /\ UNCHANGED serverVars

\* Object(prefix/train/train.csv).upload_file('data/train_transform.csv')
UploadTrainTransform ==
    /\ tpc = "upload_train"
    /\ \/ /\ s3' = [s3 EXCEPT ![TrainTransformKey] = disk["data/train_transform.csv"]]
          /\ tpc' = "upload_validation"
       \/ /\ TrainRaise
          /\ UNCHANGED s3
    /\ UNCHANGED <<adult, perm90, perm80, disk, df, df_train_val, df_test, X,
                   X_train, X_val, idx, job, monVars, kernel, workerVars>>
    /\ UNCHANGED serverVars

\* Object(prefix/validation/validation.csv).upload_file('data/val_transform.csv')
UploadValTransform ==
    /\ tpc = "upload_validation"
    /\ \/ /\ s3' = [s3 EXCEPT ![ValTransformKey] = disk["data/val_transform.csv"]]
          /\ tpc' = "fit"
       \/ /\ TrainRaise
          /\ UNCHANGED s3
    /\ UNCHANGED <<adult, perm90, perm80, disk, df, df_train_val, df_test, X,
                   X_train, X_val, idx, job, monVars, kernel, workerVars>>
    /\ UNCHANGED serverVars

\* xgb.fit({'train': s3_input_train, 'validation': s3_input_validation}):
\* blocks until the managed job has written its model under output_path.
XgbFit ==
    /\ tpc = "fit"
    /\ \/ /\ job' = [exists |-> TRUE,
                     train |-> Channel(s3, s3_input_train),
                     validation |-> Channel(s3, s3_input_validation)]
          /\ s3' = [s3 EXCEPT ![OutputModelKey] =
                        File(<<"xgboost-model", Channel(s3, s3_input_train)>>)]
          /\ tpc' = "s3_cp"
       \/ /\ TrainRaise
          /\ UNCHANGED <<s3, job>>
    /\ UNCHANGED <<adult, perm90, perm80, disk, df, df_train_val, df_test, X,
                   X_train, X_val, idx, monVars, kernel, workerVars>>
    /\ UNCHANGED serverVars

\* !aws s3 cp {xgb.model_data} model/
S3CpModel ==
    /\ tpc = "s3_cp"
    /\ disk' = [disk EXCEPT !["model/model.tar.gz"] = s3[OutputModelKey]]
    /\ tpc' = "end"
    /\ UNCHANGED <<adult, perm90, perm80, s3, df, df_train_val, df_test, X,
                   X_train, X_val, idx, job, monVars, kernel, workerVars>>
    /\ UNCHANGED serverVars

\* infer_data = X[:2, 1:]: the first rows of X without the label column
infer_data(matrix) ==
    [i \in 1..(IF Len(matrix) < 2 THEN Len(matrix) ELSE 2) |-> Tail(matrix[i])]

NextTraining ==
    \/ Wget \/ ReadCsv \/ Split90 \/ ToCsvTrain \/ ToCsvTest \/ FitTransform
    \/ PickleDump \/ Split80 \/ Savetxt \/ UploadTrainTransform
    \/ UploadValTransform \/ XgbFit \/ S3CpModel

----------------------------------------------------------------------------
(* data/infer.csv as text: a sequence of characters *)

NL == "\n"

\* len(text.split('\n'))
SplitLen(text) == 1 + Cardinality({i \in 1..Len(text) : text[i] = NL})

\* Positions of the newlines of the text, in order
NewlinePos(text) ==
    SelectSeq([i \in 1..Len(text) |-> i], LAMBDA i : text[i] = NL)

\* Iterating a text file: each line with the newline that ends it; what follows
\* the last newline is a line too when it is not empty.
FileLines(text) ==
    LET nl == NewlinePos(text)
        last == IF nl = <<>> THEN 0 ELSE nl[Len(nl)]
    IN  [k \in 1..Len(nl) |->
            SubSeq(text, IF k = 1 THEN 1 ELSE nl[k - 1] + 1, nl[k])]
        \o (IF last < Len(text) THEN <<SubSeq(text, last + 1, Len(text))>>
            ELSE <<>>)

\* str.rstrip('\n')
RECURSIVE rstrip(_)
rstrip(row) ==
    IF row # <<>> /\ row[Len(row)] = NL
    THEN rstrip(SubSeq(row, 1, Len(row) - 1))
    ELSE row

\* The files the replay is run on: a header, k data rows, and one of three
\* endings: every line ended by a newline, the last line not ended, or a blank
\* line after the last row.  The empty file is one of them too.
InferRow(i) == IF i % 2 = 1 THEN <<"a">> ELSE <<"b", "b">>

InferText(k, ending) ==
    LET lines == <<<<"h">>>> \o [i \in 1..k |-> InferRow(i)]
        body == Concat([i \in 1..Len(lines) |->
                    lines[i] \o (IF i = Len(lines) /\ ending = "none"
                                 THEN <<>> ELSE <<NL>>)])
    IN  body \o (IF ending = "blank" THEN <<NL>> ELSE <<>>)

\* int(count/ten_hours_in_sec*900) is 0 below this many rows
ten_hours_in_sec == 10 * 60 * 60
ProgressSecs == 900
FirstProgressCount == ten_hours_in_sec \div ProgressSecs

InferRowCounts == (0..2) \cup (FirstProgressCount..MaxInferRows)

InferFiles ==
    {<<>>} \cup {InferText(k, e) : k \in InferRowCounts,
                                   e \in {"newline", "none", "blank"}}

----------------------------------------------------------------------------
(* Monitoring notebook, part_001: main thread *)

Alive == kernel = "alive"

Line(text) == [text |-> text, n |-> 0]

s3_capture_upload_path == <<prefix, "/", "datacapture">>

\* Names the SDK can give the endpoint (sagemaker-xgboost-<timestamp>)
EndpointNames == {"sagemaker-xgboost-1", "sagemaker-xgboost-2"}

\* A capture configuration that samples half of the requests
data_capture_config_half ==
    [enable_capture |-> TRUE,
     sampling_percentage |-> 50,
     destination_s3_uri |-> s3_capture_upload_path]

\* DataCaptureConfig(enable_capture=True, sampling_percentage=100,
\*                   destination_s3_uri=s3_capture_upload_path)
data_capture_config ==
    [enable_capture |-> TRUE,
     sampling_percentage |-> 100,
     destination_s3_uri |-> s3_capture_upload_path]

\* A field of a cron expression: "*" or "?", a number, or start/step
AnyValue == [kind |-> "any", v |-> 0, step |-> 0]
Value(v) == [kind |-> "value", v |-> v, step |-> 0]
Every(v, step) == [kind |-> "step", v |-> v, step |-> step]

\* The expression of the comment above the call: 0/15 * * * ? *
ScheduleExpressionQuarterHour ==
    [minutes |-> Every(0, 15), hours |-> AnyValue, day_of_month |-> AnyValue,
     month |-> AnyValue, day_of_week |-> AnyValue, year |-> AnyValue]

\* 'ScheduleExpression': 'cron(0 * ? * * *)': minutes, hours, day of month,
\* month, day of week, year
ScheduleExpression ==
    [minutes |-> Value(0), hours |-> AnyValue, day_of_month |-> AnyValue,
     month |-> AnyValue, day_of_week |-> AnyValue, year |-> AnyValue]

\* 'StoppingCondition': {'MaxRuntimeInSeconds': 600}
MaxRuntimeInSeconds == 600

\* The argument of sm_client.create_monitoring_schedule
MonitoringSchedule(endpoint_name) ==
    [exists |-> TRUE,
     MonitoringScheduleName |-> endpoint_name,
     ScheduleExpression |-> ScheduleExpression,
     MonitoringInputs |-> <<endpoint_name>>,
     MaxRuntimeInSeconds |-> MaxRuntimeInSeconds]

\* An exception in a cell: the run of the notebook stops at that statement.
MonRaise(at) == mpc' = "raised" /\ merr' = at

\* The configuration cell: role, bucket, prefix and the capture/report paths
Config ==
    /\ Alive /\ mpc = "config"
    /\ out' = out \o <<Line("RoleArn"), Line("Demo Bucket"),
                       Line("Capture path"), Line("Report path")>>
    /\ mpc' = "open_files"
    /\ UNCHANGED <<envVars, trainVars, merr, calls, image_name, endpoint,
                   schedule, kernel, workerVars>>
    /\ UNCHANGED serverVars

\* Opening all three files without looking whether they are there
OpenFilesUnchecked ==
    /\ Alive /\ mpc = "open_files"
    /\ mpc' = "upload_model"
    /\ UNCHANGED <<envVars, trainVars, merr, out, calls, image_name, endpoint,
                   schedule, kernel, workerVars>>
    /\ UNCHANGED serverVars

\* model_file = open(...); train_file = open(...); test_file = open(...):
\* FileNotFoundError when one of them is missing
OpenFiles ==
    /\ Alive /\ mpc = "open_files"
    /\ IF /\ disk["model/model.tar.gz"].exists
          /\ disk["data/train.csv"].exists
          /\ disk["data/test.csv"].exists
       THEN mpc' = "upload_model" /\ UNCHANGED merr
       ELSE MonRaise("open_files")
    /\ UNCHANGED <<envVars, trainVars, out, calls, image_name, endpoint,
                   schedule, kernel, workerVars>>
    /\ UNCHANGED serverVars

\* One upload_fileobj statement: the object is written, or the SDK raises.
Upload(at, key, file, next) ==
    /\ Alive /\ mpc = at
    /\ calls' = Append(calls, at)
    /\ \/ /\ s3' = [s3 EXCEPT ![key] = disk[file]]
          /\ mpc' = next
          /\ UNCHANGED merr
       \/ /\ MonRaise(at)
          /\ UNCHANGED s3
    /\ UNCHANGED <<adult, perm90, perm80, disk, trainVars, out, image_name,
                   endpoint, schedule, kernel, workerVars>>
    /\ UNCHANGED serverVars

UploadModel == Upload("upload_model", s3_model_key, "model/model.tar.gz", "upload_train")
UploadTrain == Upload("upload_train", s3_train_key, "data/train.csv", "upload_test")
UploadTest == Upload("upload_test", s3_test_key, "data/test.csv", "print_success")

\* print("Success! You are all set to proceed.")
PrintSuccess ==
    /\ Alive /\ mpc = "print_success"
    /\ out' = Append(out, Line("Success! You are all set to proceed."))
    /\ mpc' = "build_image"
    /\ UNCHANGED <<envVars, trainVars, merr, calls, image_name, endpoint,
                   schedule, kernel, workerVars>>
    /\ UNCHANGED serverVars

\* image_name = build_and_push_docker_image(repository_short_name)
BuildImage ==
    /\ Alive /\ mpc = "build_image"
    /\ calls' = Append(calls, "build_image")
    /\ \/ /\ image_name' = "custom-model-monitor"
          /\ mpc' = "deploy"
          /\ UNCHANGED merr
       \/ /\ MonRaise("build_image")
          /\ UNCHANGED image_name
    /\ UNCHANGED <<envVars, trainVars, out, endpoint, schedule, kernel,
                   workerVars>>
    /\ UNCHANGED serverVars

\* predictor = xgb_inference_model.deploy(..., data_capture_config=data_capture_config):
\* returns when the endpoint is in service.
Deploy ==
    /\ Alive /\ mpc = "deploy"
    /\ calls' = Append(calls, "deploy")
    /\ \/ /\ \E name \in EndpointNames :
                endpoint' = [exists |-> TRUE,
                             endpoint_name |-> name,
                             model_data |-> s3[s3_model_key],
                             data_capture_config |-> data_capture_config]
          /\ mpc' = "create_schedule"
          /\ UNCHANGED merr
       \/ /\ MonRaise("deploy")
          /\ UNCHANGED endpoint
    /\ UNCHANGED <<envVars, trainVars, out, image_name, schedule, kernel,
                   workerVars>>
    /\ UNCHANGED serverVars

\* sm_client.create_monitoring_schedule(MonitoringScheduleName=predictor.endpoint_name, ...)
CreateMonitoringSchedule ==
    /\ Alive /\ mpc = "create_schedule"
    /\ calls' = Append(calls, "create_schedule")
    /\ \/ /\ schedule' = MonitoringSchedule(endpoint.endpoint_name)
          /\ mpc' = "start_thread"
          /\ UNCHANGED merr
       \/ /\ MonRaise("create_schedule")
          /\ UNCHANGED schedule
    /\ UNCHANGED <<envVars, trainVars, out, image_name, endpoint, kernel,
                   workerVars>>
    /\ UNCHANGED serverVars

\* print("Sending test traffic ..."); thread = Thread(target = invoke_endpoint, ...);
\* thread.start()
StartThread ==
    /\ Alive /\ mpc = "start_thread"
    /\ out' = Append(out, Line("Sending test traffic to the endpoint"))
    /\ wpc' = "count"
    /\ mpc' = "list_schedules"
    /\ UNCHANGED <<envVars, trainVars, merr, calls, image_name, endpoint,
                   schedule, kernel, werr, count, ind, f, now, start_time,
                   prev_start, elapsed, slept, overrun, requests, returned,
                   captured>>
    /\ UNCHANGED serverVars

\* A later cell that ends the worker (as a stop flag the worker obeyed would)
ListMonitoringSchedulesAndStop ==
    /\ Alive /\ mpc = "list_schedules"
    /\ calls' = Append(calls, "list_schedules")
    /\ mpc' = "end"
    /\ wpc' = IF wpc \in {"idle", "done", "raised"} THEN wpc ELSE "stopped"
    /\ UNCHANGED <<envVars, trainVars, merr, out, image_name, endpoint,
                   schedule, kernel, werr, count, ind, f, now, start_time,
                   prev_start, elapsed, slept, overrun, requests, returned,
                   captured>>
    /\ UNCHANGED serverVars

\* sm_client.list_monitoring_schedules(EndpointName=predictor.endpoint).  The
\* clean-up cell after it holds comments only and runs nothing.
ListMonitoringSchedules ==
    /\ Alive /\ mpc = "list_schedules"
    /\ calls' = Append(calls, "list_schedules")
    /\ \/ mpc' = "end" /\ UNCHANGED merr
       \/ MonRaise("list_schedules")
    /\ UNCHANGED <<envVars, trainVars, out, image_name, endpoint, schedule,
                   kernel, workerVars>>
    /\ UNCHANGED serverVars

\* Stopping the kernel ends the main thread and the worker thread with it; what
\* the threads held in memory is gone.  What was printed, the files, the
\* bucket, the endpoint and what it received stay.
KernelTerminate ==
    /\ Alive
    /\ kernel' = "dead"
    /\ wpc' = IF wpc \in {"idle", "done", "raised"} THEN wpc ELSE "killed"
    /\ count' = 0 /\ ind' = -1 /\ f' = NoLines
    /\ now' = 0 /\ start_time' = 0 /\ prev_start' = -1
    /\ elapsed' = 0 /\ slept' = 0 /\ overrun' = FALSE
    /\ image_name' = ""
    /\ UNCHANGED <<envVars, trainVars, mpc, merr, out, calls, endpoint,
                   schedule, werr, requests, returned, captured>>
    /\ UNCHANGED serverVars

NextMonitoring ==
    \/ Config \/ OpenFiles \/ UploadModel \/ UploadTrain \/ UploadTest
    \/ PrintSuccess \/ BuildImage \/ Deploy \/ CreateMonitoringSchedule
    \/ StartThread \/ ListMonitoringSchedules

----------------------------------------------------------------------------
(* Double precision arithmetic *)

\* int(count/ten_hours_in_sec*900) is computed in IEEE 754 double precision: each
\* operation is rounded to 53 significant bits, to nearest, ties to even.  A
\* significand is its binary digits, most significant first; long numbers are
\* divided and multiplied in limbs of LimbBits binary digits.
SignificandBits == 53
LimbBits == 10
Limb == 2 ^ LimbBits

Zeros(k) == [i \in 1..k |-> 0]

\* The limbs of a natural number
RECURSIVE Limbs(_)
Limbs(n) == IF n = 0 THEN <<>> ELSE Limbs(n \div Limb) \o <<n % Limb>>

\* The natural number of a short sequence of limbs
RECURSIVE NatOfLimbs(_)
NatOfLimbs(l) ==
    IF l = <<>> THEN 0
    ELSE Limb * NatOfLimbs(SubSeq(l, 1, Len(l) - 1)) + l[Len(l)]

\* The number of binary digits of a limb
BitLength(v) == IF v = 0 THEN 0 ELSE CHOOSE n \in 1..LimbBits : 2 ^ (n - 1) <= v /\ v < 2 ^ n

\* The binary digits of a sequence of limbs, without leading zeros
BitsOfLimbs(l) ==
    IF \A k \in 1..Len(l) : l[k] = 0 THEN <<>>
    ELSE LET first == CHOOSE k \in 1..Len(l) :
                         l[k] # 0 /\ \A h \in 1..(k - 1) : l[h] = 0
             skip == LimbBits * first - BitLength(l[first])
         IN  [j \in 1..(LimbBits * Len(l) - skip) |->
                 (l[(j + skip - 1) \div LimbBits + 1]
                     \div 2 ^ (LimbBits - 1 - ((j + skip - 1) % LimbBits))) % 2]

\* The value of at most LimbBits binary digits
RECURSIVE NatOfBits(_)
NatOfBits(b) ==
    IF b = <<>> THEN 0
    ELSE 2 * NatOfBits(SubSeq(b, 1, Len(b) - 1)) + b[Len(b)]

\* The limbs of a sequence of binary digits
LimbsOfBits(b) ==
    LET padded == Zeros((LimbBits - (Len(b) % LimbBits)) % LimbBits) \o b
    IN  [k \in 1..(Len(padded) \div LimbBits) |->
            NatOfBits(SubSeq(padded, LimbBits * (k - 1) + 1, LimbBits * k))]

\* Long division of the limbs l by a small d: quotient limbs and remainder
RECURSIVE DivStep(_, _, _, _, _)
DivStep(l, i, d, r, q) ==
    IF i > Len(l) THEN [q |-> q, r |-> r]
    ELSE DivStep(l, i + 1, d, (r * Limb + l[i]) % d,
                 Append(q, (r * Limb + l[i]) \div d))

\* l * m for a small m, from the least significant limb
RECURSIVE MulStep(_, _, _, _, _)
MulStep(l, i, m, carry, acc) ==
    IF i = 0 THEN Limbs(carry) \o acc
    ELSE MulStep(l, i - 1, m, (l[i] * m + carry) \div Limb,
                 <<(l[i] * m + carry) % Limb>> \o acc)

\* The digits of b + 1, by way of the limbs
Increment(b) == BitsOfLimbs(MulStep(LimbsOfBits(b), Len(LimbsOfBits(b)), 1, 1, <<>>))

\* Rounding to SignificandBits digits, nearest even; inexact tells that digits
\* below those of b were dropped before.  The result is [m, e]: m * 2^e.
RoundNearestEven(b, inexact) ==
    IF Len(b) <= SignificandBits THEN [m |-> b, e |-> 0]
    ELSE LET kept == SubSeq(b, 1, SignificandBits)
             guard == b[SignificandBits + 1]
             rest == inexact \/ \E i \in (SignificandBits + 2)..Len(b) : b[i] = 1
             up == guard = 1 /\ (rest \/ kept[SignificandBits] = 1)
         IN  [m |-> IF up THEN Increment(kept) ELSE kept,
              e |-> Len(b) - SignificandBits]

\* Zero limbs the dividend is extended by, so that the quotient has more than
\* SignificandBits + 1 digits
ExtraLimbs == 8

\* a / d in double precision, for naturals a >= 1 and d >= 1: [m, e]
FloatDiv(a, d) ==
    LET qr == DivStep(Limbs(a) \o Zeros(ExtraLimbs), 1, d, 0, <<>>)
        rounded == RoundNearestEven(BitsOfLimbs(qr.q), qr.r # 0)
    IN  [m |-> rounded.m, e |-> rounded.e - LimbBits * ExtraLimbs]

\* x * k in double precision, for a double x and a natural k
FloatMul(x, k) ==
    LET limbs == LimbsOfBits(x.m)
        rounded == RoundNearestEven(
                       BitsOfLimbs(MulStep(limbs, Len(limbs), k, 0, <<>>)), FALSE)
    IN  [m |-> rounded.m, e |-> rounded.e + x.e]

\* int(x) of a double x >= 0
FloatToInt(x) ==
    IF x.e >= 0 THEN NatOfLimbs(LimbsOfBits(x.m \o Zeros(x.e)))
    ELSE IF Len(x.m) + x.e <= 0 THEN 0
    ELSE NatOfLimbs(LimbsOfBits(SubSeq(x.m, 1, Len(x.m) + x.e)))

----------------------------------------------------------------------------
(* Monitoring notebook, part_001: the traffic worker, invoke_endpoint *)

\* The worker's clock counts units of 1/count second, so that
\* sleep_time = ten_hours_in_sec/count seconds is ten_hours_in_sec units.
sleep_time == ten_hours_in_sec

\* How long a call to the endpoint can take: half, or one and a half, of
\* sleep_time
CallDurations == {sleep_time \div 2, sleep_time + sleep_time \div 2}

\* int(count/ten_hours_in_sec*900): the division, then the multiplication, in
\* double precision, then the truncation.  For a count of -39 to 0 the value
\* is between -1 and 0 and truncates to 0.
progress_every(c) ==
    IF c < 1 THEN 0
    ELSE FloatToInt(FloatMul(FloatDiv(c, ten_hours_in_sec), ProgressSecs))

\* The value of int(count/ten_hours_in_sec*900) for every count a file of at
\* most MaxInferRows rows can give
progress_every_of == [c \in (-1)..(MaxInferRows + 1) |-> progress_every(c)]

\* Sleeping the whole interval, the time spent in the call not subtracted
sleep_arg_full(spent) == sleep_time

\* The interval less the time spent, with no lower bound
sleep_arg_signed(spent) == sleep_time - spent

\* max(sleep_time - (time() - start_time), 0)
sleep_arg(spent) == IF sleep_time - spent > 0 THEN sleep_time - spent ELSE 0

\* The row sent as it was read
payload_unstripped(row) == row

\* payload = row.rstrip('\n')
payload(row) == rstrip(row)

\* The endpoint writes a request to the capture path when capture is enabled
\* and the request is sampled.
Capture(config, request) ==
    IF ~config.enable_capture THEN captured' = captured
    ELSE \/ captured' = Append(captured, request)
         \/ /\ config.sampling_percentage < 100
            /\ captured' = captured

NoError == [at |-> "", sent |-> 0]

\* The exception swallowed and the loop resumed
WorkerSwallow(at) ==
    /\ wpc' = "loop"
    /\ werr' = [at |-> at, sent |-> Len(requests)]

\* An exception in invoke_endpoint ends the thread.
WorkerRaise(at) ==
    /\ wpc' = "raised"
    /\ werr' = [at |-> at, sent |-> Len(requests)]

\* pre_time = time(); count = len(f.read().split('\n')) - 2;
\* sleep_time = ten_hours_in_sec/count
WCount ==
    /\ Alive /\ wpc = "count"
    /\ IF ~disk["data/infer.csv"].exists
       THEN WorkerRaise("open") /\ UNCHANGED count
       ELSE /\ count' = SplitLen(disk["data/infer.csv"].data) - 2
            /\ IF count' = 0
               THEN WorkerRaise("sleep_time")
               ELSE wpc' = "open" /\ UNCHANGED werr
    /\ UNCHANGED <<envVars, trainVars, monVars, kernel, ind, f, now,
                   start_time, prev_start, elapsed, slept, overrun, requests,
                   returned, captured>>
    /\ UNCHANGED serverVars

\* with open(file_name, 'r') as f: next(f)
WSkipHeader ==
    /\ Alive /\ wpc = "open"
    /\ IF FileLines(disk["data/infer.csv"].data) = <<>>
       THEN WorkerRaise("next") /\ UNCHANGED f
       ELSE /\ f' = Tail(FileLines(disk["data/infer.csv"].data))
            /\ wpc' = "loop"
            /\ UNCHANGED werr
    /\ UNCHANGED <<envVars, trainVars, monVars, kernel, count, ind, now,
                   start_time, prev_start, elapsed, slept, overrun, requests,
                   returned, captured>>
    /\ UNCHANGED serverVars

\* for ind, row in enumerate(f): start_time = time(); payload = row.rstrip('\n');
\* runtime_client(data=payload) is entered
WCallStart ==
    /\ Alive /\ wpc = "loop" /\ f # <<>>
    /\ f' = Tail(f)
    /\ ind' = ind + 1
    /\ start_time' = now
    /\ prev_start' = IF ind = -1 THEN -1 ELSE start_time
    /\ elapsed' = 0 /\ slept' = 0
    /\ requests' = Append(requests, payload(Head(f)))
    /\ Capture(endpoint.data_capture_config, payload(Head(f)))
    /\ wpc' = "call"
    /\ UNCHANGED <<envVars, trainVars, monVars, kernel, werr, count, now,
                   overrun, returned>>
    /\ UNCHANGED serverVars

\* if (ind+1) % every == 0: print(f'Finished sending {ind+1} records.'), for a
\* divisor every that is not zero and sent = ind+1: what has been printed then
progress_print(o, every, sent) ==
    IF sent % every = 0
    THEN Append(o, [text |-> "Finished sending records.", n |-> sent])
    ELSE o

\* The call returns after d; the progress line is printed when due; the sleep
\* is entered.  Or the call raises, or the progress test divides by zero.
WCallReturn ==
    /\ Alive /\ wpc = "call"
    /\ returned' = returned + 1
    /\ \/ /\ \E d \in CallDurations :
                /\ now' = now + d
                /\ elapsed' = d
                /\ overrun' = (overrun \/ d > sleep_time)
                /\ slept' = sleep_arg(d)
          /\ \E every \in {progress_every_of[count]} :
                IF every = 0
                THEN WorkerRaise("progress") /\ UNCHANGED out
                ELSE /\ UNCHANGED werr
                     /\ out' = progress_print(out, every, ind + 1)
                     /\ wpc' = "sleep"
       \/ /\ WorkerRaise("call")
          /\ UNCHANGED <<out, now, elapsed, overrun, slept>>
    /\ UNCHANGED <<envVars, trainVars, mpc, merr, calls, image_name, endpoint,
                   schedule, kernel, count, ind, f, start_time, prev_start,
                   requests, captured>>
    /\ UNCHANGED serverVars

\* sleep(...) returns
WWake ==
    /\ Alive /\ wpc = "sleep"
    /\ now' = now + slept
    /\ wpc' = "loop"
    /\ UNCHANGED <<envVars, trainVars, monVars, kernel, werr, count, ind, f,
                   start_time, prev_start, elapsed, slept, overrun, requests,
                   returned, captured>>
    /\ UNCHANGED serverVars

\* The file is exhausted: print("Done!")
WDone ==
    /\ Alive /\ wpc = "loop" /\ f = <<>>
    /\ out' = Append(out, Line("Done!"))
    /\ wpc' = "done"
    /\ UNCHANGED <<envVars, trainVars, mpc, merr, calls, image_name, endpoint,
                   schedule, kernel, werr, count, ind, f, now, start_time,
                   prev_start, elapsed, slept, overrun, requests, returned,
                   captured>>
    /\ UNCHANGED serverVars

NextWorker == WCount \/ WSkipHeader \/ WCallStart \/ WCallReturn \/ WWake \/ WDone

----------------------------------------------------------------------------
(* script/inference.py as shown by the monitoring notebook: input_fn *)

\* A request body is a text of tokens: a number, a word, "," or the newline
Num(n) == [t |-> "num", n |-> n, s |-> ""]
Word(s) == [t |-> "word", n |-> 0, s |-> s]
Comma == [t |-> "sep", n |-> 0, s |-> ","]
Newline == [t |-> "sep", n |-> 0, s |-> "\n"]

\* The value a field of one token is read as
ValueOf(token) == IF token.t = "num" THEN token.n ELSE token.s

JoinWith(sep, seqs) ==
    Concat([i \in 1..Len(seqs) |->
               (IF i = 1 THEN <<>> ELSE <<sep>>) \o seqs[i]])

\* The body a client sends for the given rows of feature values: the fields
\* of a row separated by ",", the rows by newlines, the last row not ended
BodyOf(rows) ==
    JoinWith(Newline,
             [i \in 1..Len(rows) |->
                 JoinWith(Comma,
                          [j \in 1..Len(rows[i]) |->
                              <<IF column_names[j] \in NumericNames
                                THEN Num(rows[i][j]) ELSE Word(rows[i][j])>>])])

\* The pieces of a text between the occurrences of a separator: str.split
RECURSIVE SplitOn(_, _)
SplitOn(sep, text) ==
    IF \A i \in 1..Len(text) : text[i] # sep THEN <<text>>
    ELSE LET p == CHOOSE i \in 1..Len(text) :
                     text[i] = sep /\ \A k \in 1..(i - 1) : text[k] # sep
         IN  <<SubSeq(text, 1, p - 1)>>
             \o SplitOn(sep, SubSeq(text, p + 1, Len(text)))

\* pd.read_csv(StringIO(request_body), header=None): EmptyDataError on an
\* empty body; else one row per line, one value per field
ReadBodyRaises(body) == body = <<>>

ReadBody(body) ==
    LET lines == SelectSeq(SplitOn(Newline, body), LAMBDA l : l # <<>>)
    IN  [i \in 1..Len(lines) |->
            LET cells == SplitOn(Comma, lines[i])
            IN  [j \in 1..Len(cells) |-> ValueOf(cells[j][1])]]

\* preprocess.transform(df) with the preprocessor loaded from preprocess.pkl:
\* the numeric columns, then the one-hot columns of each text column
preprocess_transform(pkl, values) ==
    [k \in 1..Len(numeric_ind) |-> values[numeric_ind[k]]]
    \o Concat([k \in 1..Len(cat_ind) |-> OneHot(pkl[k], values[cat_ind[k]])])

\* pd.DataFrame(X).to_csv(X_csv, header=False, index=False): every row
\* written as its values separated by "," and ended by a newline
X_csv(matrix) ==
    Concat([i \in 1..Len(matrix) |->
               JoinWith(Comma, [j \in 1..Len(matrix[i]) |-> <<Num(matrix[i][j])>>])
               \o <<Newline>>])

\* str.replace(old, ''): every occurrence of old is removed
replace_with_empty(text, old) == SelectSeq(text, LAMBDA c : c # old)

\* xgb_encoders.csv_to_dmatrix: the lines of the text as rows of numbers;
\* a field that is not one number cannot be converted and ValueError is raised
csv_to_dmatrix(text) ==
    LET lines == SplitOn(Newline, text)
        cells == [i \in 1..Len(lines) |-> SplitOn(Comma, lines[i])]
    IN  IF \E i \in 1..Len(cells) : \E j \in 1..Len(cells[i]) :
               (Len(cells[i][j]) # 1 \/ cells[i][j][1].t # "num")
        THEN [kind |-> "ValueError", message |-> <<"could not convert string to float">>,
              rows |-> <<>>]
        ELSE [kind |-> "DMatrix", message |-> <<>>,
              rows |-> [i \in 1..Len(cells) |->
                           [j \in 1..Len(cells[i]) |-> cells[i][j][1].n]]]

\* input_fn(request_body, content_type)
input_fn(pkl, body, ctype) ==
    IF ctype = "text/csv"
    THEN IF ReadBodyRaises(body)
         THEN [kind |-> "EmptyDataError", message |-> <<"No columns to parse from file">>,
               rows |-> <<>>]
         ELSE csv_to_dmatrix(
                 replace_with_empty(
                     X_csv([i \in 1..Len(ReadBody(body)) |->
                               preprocess_transform(pkl, ReadBody(body)[i])]),
                     Newline))
    ELSE [kind |-> "ValueError",
          message |-> <<"Content type ", ctype, " is not supported.">>,
          rows |-> <<>>]

NoResult == [kind |-> "", message |-> <<>>, rows |-> <<>>]

\* The model server calls input_fn with the body and content type of a request
InputFn ==
    /\ spc = "received"
    /\ result' = input_fn(preprocess, request_body, content_type)
    /\ spc' = "responded"
    /\ UNCHANGED <<envVars, trainVars, monVars, kernel, workerVars,
                   preprocess, request_body, content_type>>

NextServer == InputFn

----------------------------------------------------------------------------
(* Specifications *)

Identity(n) == [i \in 1..n |-> i]

TrainValLen(n) == IF SplitRaises(1, 10, n) THEN 0 ELSE n_train_of(1, 10, n)

InitKernels ==
    /\ s3 = [k \in S3Keys |-> Absent]
    /\ tpc = "wget"
    /\ df = <<>> /\ df_train_val = <<>> /\ df_test = <<>>
    /\ X = <<>> /\ X_train = <<>> /\ X_val = <<>>
    /\ idx = [train_val |-> <<>>, test |-> <<>>, train |-> <<>>, val |-> <<>>]
    /\ job = NoResource
    /\ mpc = "config" /\ merr = ""
    /\ kernel = "alive"
    /\ out = <<>> /\ calls = <<>>
    /\ image_name = ""
    /\ endpoint = NoResource
    /\ schedule = NoResource
    /\ wpc = "idle" /\ werr = NoError
    /\ count = 0 /\ ind = -1 /\ f = NoLines
    /\ now = 0 /\ start_time = 0 /\ prev_start = -1
    /\ elapsed = 0 /\ slept = 0 /\ overrun = FALSE
    /\ requests = <<>> /\ returned = 0 /\ captured = <<>>

\* The inputs of a run: the census rows, the two shuffles, data/infer.csv
InitInputs(rows, shuffles, infer) ==
    /\ \E n \in rows : adult = AdultData(n)
    /\ perm90 \in shuffles[Len(adult)]
    /\ perm80 \in shuffles[TrainValLen(Len(adult))]
    /\ \E text \in infer :
          disk = [name \in DiskFiles |->
                     IF name = "data/infer.csv" THEN File(text) ELSE Absent]

\* For each number of rows, the shuffles a run may draw: one, or every one
OneShuffle == [n \in 0..MaxRows |-> {Identity(n)}]
AnyShuffle == [n \in 0..MaxRows |-> ShufflesOf(n)]

\* The model server has received no request
InitServer ==
    /\ spc = "idle"
    /\ preprocess = <<>>
    /\ request_body = <<>> /\ content_type = ""
    /\ result = NoResult

\* Both notebooks, on a census file of three rows and every infer file
Init ==
    /\ InitInputs({3}, OneShuffle, InferFiles)
    /\ InitKernels
    /\ InitServer

Next == NextTraining \/ NextMonitoring \/ NextWorker \/ KernelTerminate

Spec == Init /\ [][Next]_vars

\* The training notebook alone, on every census file and every shuffle
InitTraining ==
    /\ InitInputs(0..MaxRows, AnyShuffle, {InferText(1, "newline")})
    /\ InitKernels
    /\ InitServer

SpecTraining == InitTraining /\ [][NextTraining]_vars

\* The feature values of row i of adult.data as a client sends them
FeatureRow(i) ==
    [j \in 1..(NumColumns - 1) |->
        IF column_names[j] \in NumericNames THEN RawRow(i)[j]
        ELSE StripBlanks(RawRow(i)[j])]

\* Sequences of at most n elements of S
SeqUpTo(S, n) == UNION {[1..k -> S] : k \in 0..n}

ContentTypes ==
    {"text/csv", "application/json", "text/libsvm", "application/x-recordio-protobuf"}

\* The model server alone: a preprocessor fitted on a census file of 1 to
\* MaxRows rows, and a request of any content type whose body holds 0 to
\* MaxBodyRows rows of feature values
InitInputFn ==
    /\ InitInputs({3}, OneShuffle, {InferText(1, "newline")})
    /\ InitKernels
    /\ spc = "received"
    /\ \E n \in 1..MaxRows :
          preprocess = [k \in 1..Len(cat_ind) |->
                           categories_(read_csv(AdultData(n)), cat_ind[k])]
    /\ \E rows \in SeqUpTo({FeatureRow(i) : i \in 1..3}, MaxBodyRows) :
          request_body = BodyOf(rows)
    /\ content_type \in ContentTypes
    /\ result = NoResult

SpecInputFn == InitInputFn /\ [][NextServer]_vars

\* Numbers of data rows around the first one whose quotient count/36000 is
\* rounded so that the product with 900 falls below count/40, and small ones
ProgressCounts == {39, 40, 41, 80, 4599, 4600, 4601}

\* The loop of invoke_endpoint alone, in a file of count rows, as far as the
\* progress line goes: ind, row of enumerate(f) and the test that follows the
\* call, for the first MaxProgressRows rows
ProgressStep ==
    /\ Alive /\ wpc = "loop"
    /\ ind + 1 < count /\ ind + 1 < MaxProgressRows
    /\ ind' = ind + 1
    /\ \E every \in {progress_every(count)} :
          IF every = 0
          THEN WorkerRaise("progress") /\ UNCHANGED out
          ELSE /\ out' = progress_print(out, every, ind' + 1)
               /\ UNCHANGED <<wpc, werr>>
    /\ UNCHANGED <<envVars, trainVars, mpc, merr, calls, image_name, endpoint,
                   schedule, kernel, count, f, now, start_time, prev_start,
                   elapsed, slept, overrun, requests, returned, captured>>
    /\ UNCHANGED serverVars

\* The worker in its loop, nothing sent yet, for a file of count rows
InitProgress ==
    /\ InitInputs({3}, OneShuffle, {InferText(1, "newline")})
    /\ InitServer
    /\ s3 = [k \in S3Keys |-> Absent]
    /\ tpc = "wget"
    /\ df = <<>> /\ df_train_val = <<>> /\ df_test = <<>>
    /\ X = <<>> /\ X_train = <<>> /\ X_val = <<>>
    /\ idx = [train_val |-> <<>>, test |-> <<>>, train |-> <<>>, val |-> <<>>]
    /\ job = NoResource
    /\ mpc = "config" /\ merr = ""
    /\ kernel = "alive"
    /\ out = <<>> /\ calls = <<>>
    /\ image_name = ""
    /\ endpoint = NoResource
    /\ schedule = NoResource
    /\ wpc = "loop" /\ werr = NoError
    /\ count \in ProgressCounts /\ ind = -1 /\ f = NoLines
    /\ now = 0 /\ start_time = 0 /\ prev_start = -1
    /\ elapsed = 0 /\ slept = 0 /\ overrun = FALSE
    /\ requests = <<>> /\ returned = 0 /\ captured = <<>>

SpecProgress == InitProgress /\ [][ProgressStep]_vars

\* The training notebook is run again from its first cell, after a run that
\* ended: what the kernel held is gone, the files and the bucket are as the
\* runs before left them ("Delete these files first").
RerunTraining ==
    /\ tpc = "end"
    /\ tpc' = "wget"
    /\ df' = <<>> /\ df_train_val' = <<>> /\ df_test' = <<>>
    /\ X' = <<>> /\ X_train' = <<>> /\ X_val' = <<>>
    /\ idx' = [train_val |-> <<>>, test |-> <<>>, train |-> <<>>, val |-> <<>>]
    /\ job' = NoResource
    /\ UNCHANGED <<envVars, monVars, kernel, workerVars>>
    /\ UNCHANGED serverVars

\* The two notebooks' cells, the training notebook run any number of times
InitRerun ==
    /\ InitInputs({3}, OneShuffle, {InferText(1, "newline")})
    /\ InitKernels
    /\ InitServer

NextRerun == NextTraining \/ NextMonitoring \/ RerunTraining

SpecRerun == InitRerun /\ [][NextRerun]_vars

----------------------------------------------------------------------------
(* Claims about the training notebook, checked under SpecTraining *)

\* The input rows (positions in adult.csv) of each partition
TestRows == {df_test[k].index : k \in 1..Len(df_test)}
TrainRows == {df_train_val[idx.train[k]].index : k \in 1..Len(idx.train)}
ValRows == {df_train_val[idx.val[k]].index : k \in 1..Len(idx.val)}

\* C1: after the 90/10 split and the 80/20 split, no input row is in more than
\* one of the train, validation and test partitions; the partitions hold one
\* matrix row per input row they were given.
C1_PartitionsDisjoint ==
    /\ TestRows \cap TrainRows = {}
    /\ TestRows \cap ValRows = {}
    /\ TrainRows \cap ValRows = {}
    /\ TestRows \cap {df_train_val[k].index : k \in 1..Len(df_train_val)} = {}
    /\ Cardinality(TestRows) = Len(df_test)
    /\ Cardinality(TrainRows) = Len(X_train)
    /\ Cardinality(ValRows) = Len(X_val)
    /\ X_train = Take(X, idx.train)
    /\ X_val = Take(X, idx.val)

\* C1 witness: both splits are done and each partition holds a row
C1_Witness ==
    /\ Len(df_test) >= 1
    /\ Len(X_train) >= 2
    /\ Len(X_val) >= 1
    /\ disk["data/train_transform.csv"].exists

\* One line of a CSV file written from the frame: the fields of the input row
\* the frame row came from, in schema order.
LineOfInput(line, frame_row) ==
    /\ Len(line) = 15
    /\ \A j \in 1..15 :
          line[j] = IF column_names[j] \in NumericNames
                    THEN adult[frame_row.index][j]
                    ELSE StripBlanks(adult[frame_row.index][j])
    /\ line[15] \in {"<=50K", ">50K"}

HeaderMatchesColumns(file, frame) ==
    disk[file].exists =>
        LET lines == disk[file].data
        IN  /\ Len(lines) = Len(frame) + 1
            /\ lines[1] = column_names
            /\ Len(lines[1]) = 15
            /\ lines[1][1] = "age" /\ lines[1][15] = "income"
            /\ \A i \in 2..Len(lines) : LineOfInput(lines[i], frame[i - 1])

\* C8: data/train.csv and data/test.csv each start with one header line that
\* lists the 15 column names in schema order, and every data row has the 15
\* fields of its input row in that order, income included.
C8_HeaderMatchesColumns ==
    /\ HeaderMatchesColumns("data/train.csv", df_train_val)
    /\ HeaderMatchesColumns("data/test.csv", df_test)

\* C8 witness: both files are written and hold data rows
C8_Witness ==
    /\ disk["data/train.csv"].exists
    /\ disk["data/test.csv"].exists
    /\ Len(disk["data/train.csv"].data) >= 3
    /\ Len(disk["data/test.csv"].data) >= 2

----------------------------------------------------------------------------
(* Claims about the traffic worker, checked under Spec *)

\* A line of the file without the newline that ends it
WithoutNewline(line) ==
    IF line # <<>> /\ line[Len(line)] = NL
    THEN SubSeq(line, 1, Len(line) - 1)
    ELSE line

\* What the replay of a file is to send: the lines after the header, in file
\* order, each without its newline
ExpectedPayloads(lines) ==
    [k \in 1..(Len(lines) - 1) |-> WithoutNewline(lines[k + 1])]

\* C2: the requests the endpoint has received are always the first data lines
\* of the file, in file order, each once and without its trailing newline; the
\* header line is not among them; when the replay has finished every data line
\* has been sent; and at most one call is in flight, so call i+1 starts only
\* after call i has ended.
C2_SequentialReplay ==
    /\ \A lines \in {FileLines(disk["data/infer.csv"].data)} :
       \A expected \in {ExpectedPayloads(lines)} :
          /\ IsPrefix(requests, expected)
          /\ \A i \in 1..Len(requests) : requests[i] # WithoutNewline(lines[1])
          /\ wpc = "done" => requests = expected
    /\ Len(requests) - returned \in {0, 1}
    /\ wpc = "call" => Len(requests) - returned = 1
    /\ wpc \in {"sleep", "loop", "done"} => Len(requests) = returned

\* C2 witness: a replay of a file of at least 40 data lines has finished
C2_Witness ==
    /\ wpc = "done"
    /\ Len(requests) >= FirstProgressCount
    /\ returned = Len(requests)

\* C3: as long as no call has taken longer than the interval (sleep_time units
\* of 1/count second, that is 36000/count seconds), each call starts exactly
\* one interval after the call before it; and a replay of count lines in which
\* no call took longer than the interval ends 36000 seconds (36000 * count
\* units) after it began.
C3_FixedRate ==
    /\ (Alive /\ ~overrun /\ prev_start >= 0) =>
            start_time - prev_start = sleep_time
    /\ (Alive /\ ~overrun /\ wpc = "done" /\ Len(requests) = count) =>
            now = ten_hours_in_sec * count

\* C3 witness: a replay of count lines, no call longer than the interval, has
\* finished
C3_Witness ==
    /\ Alive /\ wpc = "done" /\ ~overrun
    /\ count >= FirstProgressCount
    /\ Len(requests) = count
    /\ start_time - prev_start = sleep_time

\* C4: once the thread has been started, a step of the main thread that leaves
\* the kernel alive changes nothing of the worker: not its position, not what
\* it holds, not what it has sent.
C4_NoCancellation ==
    [][(wpc # "idle" /\ mpc' # mpc /\ kernel' = "alive")
          => UNCHANGED workerVars]_vars

\* C4 witness: the main thread has run its last cell and the worker is still
\* replaying, some lines sent and some to send
C4_Witness ==
    /\ Alive /\ mpc = "end"
    /\ wpc \in {"call", "sleep", "loop"}
    /\ Len(requests) >= 2
    /\ f # <<>>

\* C5: after the endpoint call of a line raised, the requests received stay
\* what they were when it raised (the line is not sent again, no later line is
\* sent), the worker stays ended and "Done!" is not printed; after one of the
\* three uploads raised, the run stays ended, no later upload has been called
\* and "Success! You are all set to proceed." is not printed.
C5_NoRecovery ==
    /\ werr.at = "call" =>
          /\ wpc = "raised"
          /\ Len(requests) = werr.sent
          /\ Line("Done!") \notin Range(out)
    /\ merr \in {"upload_model", "upload_train", "upload_test"} =>
          /\ mpc = "raised"
          /\ calls # <<>> /\ calls[Len(calls)] = merr
          /\ Line("Success! You are all set to proceed.") \notin Range(out)
    /\ merr = "upload_model" => ~s3[s3_model_key].exists
    /\ merr \in {"upload_model", "upload_train"} => ~s3[s3_train_key].exists
    /\ merr \in {"upload_model", "upload_train", "upload_test"} =>
          ~s3[s3_test_key].exists

\* C5 witness: the call of the third line raised, after two lines were served
C5_Witness ==
    /\ werr.at = "call"
    /\ werr.sent = 3
    /\ returned = 3
    /\ wpc = "raised"
    /\ Len(FileLines(disk["data/infer.csv"].data)) > 4

----------------------------------------------------------------------------
(* Claims about the order of the steps and the deployed resources, checked
   under Spec *)

\* What each step of the workflow leaves behind when it has completed
Loaded == df # <<>>
TestSplitOff == df_test # <<>> /\ df_train_val # <<>>
CsvWritten == disk["data/train.csv"].exists /\ disk["data/test.csv"].exists
Encoded == X # <<>>
Serialized == disk["script/preprocess.pkl"].exists
ValSplitOff == X_train # <<>> /\ X_val # <<>>
TransformedUploaded == s3[TrainTransformKey].exists /\ s3[ValTransformKey].exists
JobCompleted == job.exists
ModelDownloaded == disk["model/model.tar.gz"].exists
Called(at) == at \in Range(calls)
Deployed == endpoint.exists
CaptureEnabled == endpoint.exists /\ endpoint.data_capture_config.enable_capture
Scheduled == schedule.exists
TrafficStarted == wpc # "idle"

C9_CaptureEnabled ==
    /\ endpoint.exists =>
          /\ endpoint.data_capture_config.enable_capture
          /\ endpoint.data_capture_config.sampling_percentage = 100
          /\ endpoint.data_capture_config.destination_s3_uri
                = <<prefix, "/", "datacapture">>
    /\ captured = requests
    /\ requests # <<>> => endpoint.exists

\* C9 witness: the endpoint has served and captured requests of the worker
C9_Witness ==
    /\ endpoint.exists
    /\ wpc = "sleep"
    /\ Len(requests) >= 2
    /\ Len(captured) >= 2

\* Whether a field of a cron expression admits the value x
FieldMatches(fld, x) ==
    CASE fld.kind = "any" -> TRUE
      [] fld.kind = "value" -> x = fld.v
      [] fld.kind = "step" -> x >= fld.v /\ (x - fld.v) % fld.step = 0

\* The hours of a day, and the minutes of an hour, at which the expression
\* starts a job: a job starts at hour:minute when both fields admit it
HoursOf(expr) == {hour \in 0..23 : FieldMatches(expr.hours, hour)}
MinutesOf(expr) == {minute \in 0..59 : FieldMatches(expr.minutes, minute)}

----------------------------------------------------------------------------
(* Claims about the model server, checked under SpecInputFn *)

\* The rows of feature values a request body holds
RowsOfBody(body) == IF body = <<>> THEN <<>> ELSE ReadBody(body)

\* C11: when input_fn has answered a request, then for content type text/csv
\* the answer is a DMatrix whose rows are the rows of the request body, each
\* transformed by the pickled preprocessor; and for every other content type
\* it is a ValueError that names the content type and does not depend on the
\* body.
C11_InputFnAsStated ==
    spc = "responded" =>
        IF content_type = "text/csv"
        THEN /\ result.kind = "DMatrix"
             /\ result.rows =
                   [i \in 1..Len(RowsOfBody(request_body)) |->
                       preprocess_transform(preprocess,
                                            RowsOfBody(request_body)[i])]
        ELSE /\ result.kind = "ValueError"
             /\ result.message = <<"Content type ", content_type, " is not supported.">>
             /\ result.rows = <<>>

----------------------------------------------------------------------------
(* Claims about the termination and the pacing of the traffic worker, checked
   under Spec *)

\* C12: on a file with a header line and at least one data line the worker
\* ends only by finishing (or by a call that raised, which the claim sets
\* aside): the interval computation and the progress test never divide by
\* zero, no other statement raises, and a worker that has finished has sent
\* every data line and printed "Done!".
C12_TerminatesAsStated ==
    /\ werr.at \in {"open", "next", "sleep_time", "progress"} =>
          Len(FileLines(disk["data/infer.csv"].data)) < 2
    /\ wpc = "done" =>
          /\ Line("Done!") \in Range(out)
          /\ Len(requests) = Len(FileLines(disk["data/infer.csv"].data)) - 1


\* C13: once the header is skipped, count is the number of lines the loop
\* iterates over: the lines it has taken so far and the lines still to read.
C13_CountAsStated ==
    (Alive /\ wpc \in {"loop", "call", "sleep", "done"}) =>
        count = (ind + 1) + Len(f)


\* C14: the time slept after a call is the interval less the call's duration
\* when the call was shorter than the interval, and zero otherwise, never
\* negative; so the next call starts one interval after the call's start, or
\* right when the call returned if that is later; and two calls never start
\* less than one interval apart, whatever time earlier calls have lost.
C14_SleepTime ==
    /\ (Alive /\ wpc = "sleep") =>
          /\ slept >= 0
          /\ elapsed < sleep_time => slept = sleep_time - elapsed
          /\ elapsed >= sleep_time => slept = 0
          /\ now = start_time + elapsed
    /\ (Alive /\ wpc = "loop" /\ ind >= 0) =>
          now = start_time + (IF elapsed >= sleep_time THEN elapsed
                              ELSE sleep_time)
    /\ (Alive /\ prev_start >= 0) => start_time - prev_start >= sleep_time

\* C14 witness: an earlier call took longer than the interval, and the sleep
\* after a later, shorter call is the interval less that call's duration
C14_Witness ==
    /\ Alive /\ wpc = "sleep"
    /\ overrun
    /\ elapsed < sleep_time
    /\ slept = sleep_time - elapsed
    /\ start_time - prev_start > sleep_time


----------------------------------------------------------------------------
(* Claims about the progress line, checked under SpecProgress *)

\* The numbers of the "Finished sending ... records." lines printed, in order
PrintedCounts ==
    LET lines == SelectSeq(out, LAMBDA l : l.text = "Finished sending records.")
    IN  [k \in 1..Len(lines) |-> lines[k].n]

\* C15: after ind+1 rows have been sent, the progress lines printed are those
\* of the n in 1..ind+1 that are positive multiples of int(count/40), each
\* once, in increasing order (none when int(count/40) is 0).
C15_ProgressAsStated ==
    (Alive /\ wpc = "loop") =>
        \A printed \in {PrintedCounts} :
            /\ \A i, j \in 1..Len(printed) : i < j => printed[i] < printed[j]
            /\ Range(printed) =
                   {n \in 1..(ind + 1) :
                       count \div 40 > 0 /\ n % (count \div 40) = 0}


----------------------------------------------------------------------------
(* Claims about the training job's channels, checked under SpecRerun *)

\* C16: whenever a training job has been submitted, the objects its train
\* channel matched are exactly prefix/train/train.csv, whichever uploads of
\* the two notebooks came before the job.
C16_TrainChannelAsStated ==
    job.exists => job.train = {TrainTransformKey}


----------------------------------------------------------------------------
(* Claims about the transformed matrix, checked under SpecTraining *)

\* The numbers of the lines of a file written by savetxt
ReadMatrix(file) ==
    [i \in 1..Len(file.data) |->
        [j \in 1..Len(file.data[i]) |-> float_of(file.data[i][j])]]

\* Line k of the file holds the label of the train_val row at position
\* indices[k], then the transformed features of that row
LabelThenFeatures(file, indices) ==
    \A matrix \in {ReadMatrix(file)} :
        /\ Len(matrix) = Len(indices)
        /\ \A k \in 1..Len(matrix) :
              \A row \in {df_train_val[indices[k]]} :
                 /\ Head(matrix[k]) =
                        LabelEncoder(df_train_val,
                                     StripBlanks(adult[row.index][NumColumns]))
                 /\ Tail(matrix[k]) = transform(df_train_val, row)
                 /\ Len(matrix[k]) = Len(infer_data(X)[1]) + 1

\* C17: once the transformed files are written, every row of
\* data/train_transform.csv and of data/val_transform.csv is the encoded income
\* label of a train_val row followed by the transformed features of the same
\* row, and has one more column than infer_data = X[:2, 1:].
C17_LabelFirstAligned ==
    disk["data/train_transform.csv"].exists =>
        /\ disk["data/val_transform.csv"].exists
        /\ LabelThenFeatures(disk["data/train_transform.csv"], idx.train)
        /\ LabelThenFeatures(disk["data/val_transform.csv"], idx.val)

\* Files of two training rows and a validation row are written, with a label
\* 1 in one and 0 in the other, from a shuffle that is not the identity
C17_Witness ==
    /\ disk["data/train_transform.csv"].exists
    /\ Len(disk["data/train_transform.csv"].data) = 2
    /\ Len(disk["data/val_transform.csv"].data) = 1
    /\ \E i, k \in 1..2 :
          /\ float_of(disk["data/train_transform.csv"].data[i][1]) = 1
          /\ float_of(disk["data/train_transform.csv"].data[k][1]) = 0
    /\ idx.train # <<1, 2>>
    /\ Len(infer_data(X)) = 2

=============================================================================
